---- MODULE Spec2Model ----
(***************************************************************************)
(* Model of rustrelay/src/relay/transport_header.rs: the protocol-tagged   *)
(* owned header snapshot (TransportHeaderData) and the read-only and       *)
(* mutable views (TransportHeader, TransportHeaderMut) bound over a packet *)
(* buffer.  The TCP, UDP and IPv4 codecs the file imports (tcp_header,     *)
(* udp_header, ipv4_header) are modelled from their documented contract.   *)
(***************************************************************************)
EXTENDS Integers, Sequences, FiniteSets, TLC

VARIABLES
    protocol,   \* the Protocol tag handed to parse
    raw,        \* the packet buffer, a sequence of bytes starting at the transport header
    data,       \* Option<TransportHeaderData>: None or the owned snapshot
    views,      \* the live TransportHeader / TransportHeaderMut values
    cloned,     \* the result of the last data_clone(), with what it was taken from
    last,       \* the last mutating call made through the mutable view, with its arguments
    run,        \* the current run of consecutive swap_source_and_destination calls
    trace,      \* what parse did: codec parsers invoked, fields read, tag of its result
    status,     \* "new", "parsed", "unsupported", "panicked", "dropped"
    dirty,      \* TRUE once the caller wrote header bytes through raw_mut()
    nops        \* number of operations performed on this packet

vars == <<protocol, raw, data, views, cloned, last, run, trace, status, dirty, nops>>

----------------------------------------------------------------------------
(* Bounds *)

MaxOps == 5
MaxViews == 2

----------------------------------------------------------------------------
(* Bytes and big-endian 16-bit fields (byteorder::BigEndian) *)

Byte == 0..255
U16Mod == 65536

read_u16(b, off) == b[off + 1] * 256 + b[off + 2]

write_u16(b, off, v) == [b EXCEPT ![off + 1] = v \div 256, ![off + 2] = v % 256]

\* Rust's slice::swap(i, j), 0-based indices
slice_swap(b, i, j) == [b EXCEPT ![i + 1] = b[j + 1], ![j + 1] = b[i + 1]]

None == [tag |-> "None"]

----------------------------------------------------------------------------
(* Protocol (ipv4_header::Protocol) *)

Protocols == {"TCP", "UDP", "OTHER"}

PROTOCOL_TCP == 6
PROTOCOL_UDP == 17

----------------------------------------------------------------------------
(* UDP codec (udp_header) *)

UDP_HEADER_LENGTH == 8

UDPHeaderData_parse(b) ==
    IF Len(b) < UDP_HEADER_LENGTH
    THEN [ok |-> FALSE, read |-> FALSE, data |-> None]
    ELSE [ok |-> TRUE, read |-> TRUE,
          data |-> [source_port |-> read_u16(b, 0), destination_port |-> read_u16(b, 2)]]

\* swap exchanging the wrong pair of bytes
UDPHeaderMut_swap_source_and_destination_off_by_one(b, d) ==
    [raw |-> slice_swap(slice_swap(b, 0, 1), 1, 2),
     data |-> [d EXCEPT !.source_port = d.destination_port,
                        !.destination_port = d.source_port]]

UDPHeaderMut_swap_source_and_destination(b, d) ==
    [raw |-> slice_swap(slice_swap(b, 0, 2), 1, 3),
     data |-> [d EXCEPT !.source_port = d.destination_port,
                        !.destination_port = d.source_port]]

\* u16 addition: a build with overflow checks aborts, one without wraps
UDPHeaderMut_set_payload_length(b, n, overflow_checks) ==
    LET total_length == UDP_HEADER_LENGTH + n IN
    IF total_length >= U16Mod /\ overflow_checks
    THEN [ok |-> FALSE, raw |-> b]
    ELSE [ok |-> TRUE, raw |-> write_u16(b, 4, total_length % U16Mod)]

----------------------------------------------------------------------------
(* TCP codec (tcp_header) *)

TCP_MIN_HEADER_LENGTH == 20

TCPHeaderData_parse(b) ==
    IF Len(b) < TCP_MIN_HEADER_LENGTH
    THEN [ok |-> FALSE, read |-> FALSE, data |-> None]
    ELSE [ok |-> TRUE, read |-> TRUE,
          data |-> [source_port |-> read_u16(b, 0), destination_port |-> read_u16(b, 2),
                    header_length |-> (b[13] \div 16) * 4]]

TCPHeaderData_header_length(d) == d.header_length

TCPHeaderMut_swap_source_and_destination(b, d) ==
    [raw |-> slice_swap(slice_swap(b, 0, 2), 1, 3),
     data |-> [d EXCEPT !.source_port = d.destination_port,
                        !.destination_port = d.source_port]]

----------------------------------------------------------------------------
(* Internet checksum (one's complement sum of 16-bit words) *)

RECURSIVE SumWords(_, _)
SumWords(b, i) ==
    IF i > Len(b) THEN 0
    ELSE IF i = Len(b) THEN b[i] * 256
    ELSE b[i] * 256 + b[i + 1] + SumWords(b, i + 2)

RECURSIVE Fold(_)
Fold(s) == IF s < U16Mod THEN s ELSE Fold((s % U16Mod) + (s \div U16Mod))

PseudoSum(ip, proto, transport_length) ==
    ip.source[1] + ip.source[2] + ip.destination[1] + ip.destination[2]
    + proto + transport_length

compute_checksum(b, ip, payload, proto, field) ==
    LET transport_length == ip.total_length - ip.header_length
        zeroed == write_u16(b, field, 0)
        sum == PseudoSum(ip, proto, transport_length) + SumWords(zeroed, 1)
               + SumWords(payload, 1)
    IN  (U16Mod - 1) - Fold(sum)

TCPHeaderMut_update_checksum(b, ip, payload) ==
    write_u16(b, 16, compute_checksum(b, ip, payload, PROTOCOL_TCP, 16))

UDPHeaderMut_update_checksum(b, ip, payload) ==
    write_u16(b, 6, compute_checksum(b, ip, payload, PROTOCOL_UDP, 6))

----------------------------------------------------------------------------
(* IPv4 header data handed to update_checksum (ipv4_header::IPv4HeaderData) *)

IPV4_HEADER_LENGTH == 20

\* a 32-bit address is kept as its two 16-bit halves <<high, low>>
AddrPairs == { << <<2560, 514>>, <<49320, 257>> >>,      \* 10.0.2.2 -> 192.168.1.1
               << <<65535, 65535>>, <<0, 65535>> >> }    \* 255.255.255.255 -> 0.0.255.255

Payloads == { <<>>, <<1>>, <<255, 255, 255, 254>> }

\* the IPv4 header of the packet whose transport part is hl header bytes and payload
IPv4HeaderData(a, hl, payload) ==
    [source |-> a[1], destination |-> a[2],
     header_length |-> IPV4_HEADER_LENGTH,
     total_length |-> IPV4_HEADER_LENGTH + hl + Len(payload)]

----------------------------------------------------------------------------
(* TransportHeaderData *)

From_TCPHeaderData(d) == [tag |-> "TCP", inner |-> d]

From_UDPHeaderData(d) == [tag |-> "UDP", inner |-> d]

\* parse with the catch-all arm falling through to the UDP parser
TransportHeaderData_parse_fallthrough(p, b) ==
    IF p = "TCP"
    THEN LET r == TCPHeaderData_parse(b) IN
         [ok |-> r.ok, codecs |-> {"TCP"}, read |-> r.read,
          some |-> IF r.ok THEN From_TCPHeaderData(r.data) ELSE None]
    ELSE LET r == UDPHeaderData_parse(b) IN
         [ok |-> r.ok, codecs |-> {"UDP"}, read |-> r.read,
          some |-> IF r.ok THEN From_UDPHeaderData(r.data) ELSE None]

\* parse with the TCP arm handing the bytes to the UDP parser
TransportHeaderData_parse_crossed(p, b) ==
    CASE p \in {"UDP", "TCP"} ->
            LET r == UDPHeaderData_parse(b) IN
            [ok |-> r.ok, codecs |-> {"UDP"}, read |-> r.read,
             some |-> IF r.ok THEN From_UDPHeaderData(r.data) ELSE None]
      [] OTHER -> [ok |-> TRUE, codecs |-> {}, read |-> FALSE, some |-> None]

TransportHeaderData_parse(p, b) ==
    CASE p = "UDP" ->
            LET r == UDPHeaderData_parse(b) IN
            [ok |-> r.ok, codecs |-> {"UDP"}, read |-> r.read,
             some |-> IF r.ok THEN From_UDPHeaderData(r.data) ELSE None]
      [] p = "TCP" ->
            LET r == TCPHeaderData_parse(b) IN
            [ok |-> r.ok, codecs |-> {"TCP"}, read |-> r.read,
             some |-> IF r.ok THEN From_TCPHeaderData(r.data) ELSE None]
      [] OTHER -> [ok |-> TRUE, codecs |-> {}, read |-> FALSE, some |-> None]

TransportHeaderData_source_port(d) ==
    IF d.tag = "TCP" THEN d.inner.source_port ELSE d.inner.source_port

TransportHeaderData_destination_port(d) ==
    IF d.tag = "TCP" THEN d.inner.destination_port ELSE d.inner.destination_port

TransportHeaderData_header_length(d) ==
    IF d.tag = "TCP" THEN TCPHeaderData_header_length(d.inner) ELSE UDP_HEADER_LENGTH

----------------------------------------------------------------------------
(* Binding: TransportHeader::new, TransportHeaderMut::new and the From impls. *)
(* A codec view is the span raw[..header_length] plus a reference to the     *)
(* codec data; the reference is modelled by the variable data itself.        *)

TCPHeaderData_bind(b, d) ==
    IF Len(b) < d.header_length THEN [ok |-> FALSE, len |-> 0]
    ELSE [ok |-> TRUE, len |-> d.header_length]

UDPHeaderData_bind(b, d) ==
    IF Len(b) < UDP_HEADER_LENGTH THEN [ok |-> FALSE, len |-> 0]
    ELSE [ok |-> TRUE, len |-> UDP_HEADER_LENGTH]

From_TCPHeader(h) == [ok |-> h.ok, tag |-> "TCP", len |-> h.len]

From_UDPHeader(h) == [ok |-> h.ok, tag |-> "UDP", len |-> h.len]

TransportHeader_new(b, d) ==
    IF d.tag = "TCP" THEN From_TCPHeader(TCPHeaderData_bind(b, d.inner))
    ELSE From_UDPHeader(UDPHeaderData_bind(b, d.inner))

\* new with the variants wrapped the wrong way round
TransportHeaderMut_new_crossed(b, d) ==
    IF d.tag = "TCP" THEN From_UDPHeader(TCPHeaderData_bind(b, d.inner))
    ELSE From_TCPHeader(UDPHeaderData_bind(b, d.inner))

TransportHeaderMut_new(b, d) ==
    IF d.tag = "TCP" THEN From_TCPHeader(TCPHeaderData_bind(b, d.inner))
    ELSE From_UDPHeader(UDPHeaderData_bind(b, d.inner))

\* bind borrows self and raw shared: allowed beside other shared borrows only
CanBind == \A v \in views : v.kind = "ro"

\* bind_mut taking shared borrows, as bind does
CanBindMut_shared == \A v \in views : v.kind = "ro"

\* bind_mut borrows self and raw exclusively: no other borrow of either may be live
CanBindMut == views = {}

\* 'a: 'c, 'b: 'c: the Data and the buffer outlive every view bound from them
CanDrop == views = {}

----------------------------------------------------------------------------
(* transport_header_common!: the accessors shared by both view forms.        *)
(* v is the view, b the buffer and d the Data it is bound to.                *)

TransportHeader_raw(v, b) == SubSeq(b, 1, v.len)

\* data_clone with the variants wrapped the wrong way round
TransportHeader_data_clone_crossed(v, d) ==
    IF v.tag = "TCP" THEN From_UDPHeaderData(d.inner) ELSE From_TCPHeaderData(d.inner)

TransportHeader_data_clone(v, d) ==
    IF v.tag = "TCP" THEN From_TCPHeaderData(d.inner) ELSE From_UDPHeaderData(d.inner)

TransportHeader_source_port(v, d) ==
    IF v.tag = "TCP" THEN d.inner.source_port ELSE d.inner.source_port

TransportHeader_destination_port(v, d) ==
    IF v.tag = "TCP" THEN d.inner.destination_port ELSE d.inner.destination_port

\* header_length answering the UDP constant for both variants
TransportHeader_header_length_fixed(v, d) == UDP_HEADER_LENGTH

TransportHeader_header_length(v, d) ==
    IF v.tag = "TCP" THEN TCPHeaderData_header_length(d.inner) ELSE UDP_HEADER_LENGTH

----------------------------------------------------------------------------
(* TransportHeaderMut: the mutable-only operations.  Each takes the header   *)
(* span h and the codec data c and yields the new span and codec data.       *)

\* swap with the UDP arm left out
TransportHeaderMut_swap_source_and_destination_tcp_only(v, h, c) ==
    IF v.tag = "TCP" THEN TCPHeaderMut_swap_source_and_destination(h, c)
    ELSE [raw |-> h, data |-> c]

TransportHeaderMut_swap_source_and_destination(v, h, c) ==
    IF v.tag = "TCP" THEN TCPHeaderMut_swap_source_and_destination(h, c)
    ELSE UDPHeaderMut_swap_source_and_destination(h, c)

\* set_payload_length patching the length field whatever the variant
TransportHeaderMut_set_payload_length_always(v, h, n, overflow_checks) ==
    UDPHeaderMut_set_payload_length(h, n, overflow_checks)

TransportHeaderMut_set_payload_length(v, h, n, overflow_checks) ==
    IF v.tag = "UDP" THEN UDPHeaderMut_set_payload_length(h, n, overflow_checks)
    ELSE [ok |-> TRUE, raw |-> h]

\* update_checksum with both arms calling the UDP codec
TransportHeaderMut_update_checksum_udp_only(v, h, ip, payload) ==
    UDPHeaderMut_update_checksum(h, ip, payload)

TransportHeaderMut_update_checksum(v, h, ip, payload) ==
    IF v.tag = "TCP" THEN TCPHeaderMut_update_checksum(h, ip, payload)
    ELSE UDPHeaderMut_update_checksum(h, ip, payload)

\* the buffer with its header span replaced
Splice(b, h) == h \o SubSeq(b, Len(h) + 1, Len(b))

----------------------------------------------------------------------------
(* Packets the relay hands to this layer *)

PortPairs == { <<5000, 80>>, <<65535, 1>> }

DataOffsets == {5, 8, 15}

PayloadLengths == {4, 65527, 65535}

\* header bytes the caller may store through raw_mut(): <<0-based offset, byte>>
RawWrites == { <<1, 165>>, <<12, 240>> }

Ones(n) == [i \in 1..n |-> 1]

MkUDP(pp) ==
    << pp[1] \div 256, pp[1] % 256, pp[2] \div 256, pp[2] % 256, 0, 9, 190, 239 >>

MkTCP(pp, off) ==
    << pp[1] \div 256, pp[1] % 256, pp[2] \div 256, pp[2] % 256,
       0, 0, 0, 1,  0, 0, 0, 2,  off * 16, 24,  255, 255,  171, 205,  0, 0 >>
    \o Ones((off - 5) * 4)

Buffers ==
    { MkUDP(pp) : pp \in PortPairs }
    \cup { MkTCP(pp, off) : pp \in PortPairs, off \in DataOffsets }
    \cup { << >>,                                  \* empty
           << 222, 173, 190, 239 >>,               \* 4 bytes of garbage
           SubSeq(MkTCP(<<5000, 80>>, 5), 1, 19),  \* one byte short of a TCP header
           SubSeq(MkTCP(<<5000, 80>>, 8), 1, 20),  \* options announced but cut off
           MkUDP(<<5000, 80>>) \o << 7, 7 >> }     \* header followed by payload bytes

Init ==
    /\ protocol \in Protocols
    /\ raw \in Buffers
    /\ data = None
    /\ views = {}
    /\ cloned = [op |-> "none"]
    /\ last = [op |-> "none"]
    /\ run = [n |-> 0]
    /\ trace = [codecs |-> {}, read |-> FALSE, tag |-> "None"]
    /\ status = "new"
    /\ dirty = FALSE
    /\ nops = 0

----------------------------------------------------------------------------
(* Operations *)

Step == nops < MaxOps /\ nops' = nops + 1

MutView == { v \in views : v.kind = "mut" }

FreeIds == { i \in 1..MaxViews : \A v \in views : v.id # i }

\* TransportHeaderData::parse(protocol, raw)
Parse ==
    /\ status = "new"
    /\ Step
    /\ LET r == TransportHeaderData_parse(protocol, raw) IN
        /\ data' = r.some
        /\ trace' = [codecs |-> r.codecs, read |-> r.read, tag |-> r.some.tag]
        /\ status' = IF ~r.ok THEN "panicked"
                     ELSE IF r.some = None THEN "unsupported" ELSE "parsed"
    /\ UNCHANGED <<protocol, raw, views, cloned, last, run, dirty>>

\* data.bind(raw)
Bind ==
    /\ status = "parsed"
    /\ CanBind
    /\ FreeIds # {}
    /\ Step
    /\ LET h == TransportHeader_new(raw, data)
           i == CHOOSE i \in FreeIds : \A j \in FreeIds : i <= j IN
        IF h.ok
        THEN /\ views' = views \cup {[id |-> i, kind |-> "ro", tag |-> h.tag, len |-> h.len,
                                      orig |-> data, clean |-> TRUE]}
             /\ UNCHANGED status
        ELSE /\ views' = {}
             /\ status' = "panicked"
    /\ UNCHANGED <<protocol, raw, data, cloned, last, run, trace, dirty>>

\* data.bind_mut(raw)
BindMut ==
    /\ status = "parsed"
    /\ CanBindMut
    /\ FreeIds # {}
    /\ Step
    /\ LET h == TransportHeaderMut_new(raw, data)
           i == CHOOSE i \in FreeIds : \A j \in FreeIds : i <= j IN
        IF h.ok
        THEN /\ views' = views \cup {[id |-> i, kind |-> "mut", tag |-> h.tag, len |-> h.len,
                                      orig |-> data, clean |-> TRUE]}
             /\ UNCHANGED status
        ELSE /\ views' = {}
             /\ status' = "panicked"
    /\ run' = [n |-> 0]
    /\ UNCHANGED <<protocol, raw, data, cloned, last, trace, dirty>>

\* view.data_clone(), on either view form
DataClone ==
    /\ status = "parsed"
    /\ Step
    /\ \E v \in views :
        cloned' = [op |-> "data_clone", val |-> TransportHeader_data_clone(v, data),
                   kind |-> v.kind, tag |-> v.tag, of |-> v.orig, clean |-> v.clean]
    /\ UNCHANGED <<protocol, raw, data, views, last, run, trace, status, dirty>>

Touched(v) == (views \ {v}) \cup {[v EXCEPT !.clean = FALSE]}

\* view.swap_source_and_destination()
Swap ==
    /\ status = "parsed"
    /\ Step
    /\ \E v \in MutView :
        LET r == TransportHeaderMut_swap_source_and_destination(
                     v, TransportHeader_raw(v, raw), data.inner) IN
        /\ raw' = Splice(raw, r.raw)
        /\ data' = [data EXCEPT !.inner = r.data]
        /\ views' = Touched(v)
        /\ run' = IF run.n = 0
                  THEN [n |-> 1, data |-> data, raw |-> TransportHeader_raw(v, raw)]
                  ELSE [run EXCEPT !.n = run.n + 1]
        /\ last' = [op |-> "swap_source_and_destination"]
    /\ UNCHANGED <<protocol, cloned, trace, status, dirty>>

\* view.set_payload_length(n)
SetPayloadLength ==
    /\ status = "parsed"
    /\ Step
    /\ \E v \in MutView, n \in PayloadLengths, overflow_checks \in BOOLEAN :
        LET h == TransportHeader_raw(v, raw)
            r == TransportHeaderMut_set_payload_length(v, h, n, overflow_checks) IN
        /\ raw' = Splice(raw, r.raw)
        /\ status' = IF r.ok THEN status ELSE "panicked"
        /\ views' = IF r.ok THEN Touched(v) ELSE {}
        /\ last' = [op |-> "set_payload_length", n |-> n, tag |-> v.tag, ok |-> r.ok,
                    raw |-> raw, data |-> data]
    /\ run' = [n |-> 0]
    /\ UNCHANGED <<protocol, data, cloned, trace, dirty>>

\* view.update_checksum(&ipv4_header_data, payload)
UpdateChecksum ==
    /\ status = "parsed"
    /\ Step
    /\ \E v \in MutView, a \in AddrPairs, payload \in Payloads :
        LET h == TransportHeader_raw(v, raw)
            ip == IPv4HeaderData(a, Len(h), payload) IN
        /\ raw' = Splice(raw, TransportHeaderMut_update_checksum(v, h, ip, payload))
        /\ views' = Touched(v)
        /\ last' = [op |-> "update_checksum", ip |-> ip, payload |-> payload,
                    tag |-> v.tag, after |-> last.op]
    /\ run' = [n |-> 0]
    /\ UNCHANGED <<protocol, data, cloned, trace, status, dirty>>

\* a store by the caller through view.raw_mut()
RawMutWrite ==
    /\ status = "parsed"
    /\ Step
    /\ \E v \in MutView, w \in RawWrites :
        /\ w[1] < v.len
        /\ raw' = [raw EXCEPT ![w[1] + 1] = w[2]]
        /\ views' = Touched(v)
    /\ last' = [op |-> "raw_mut"]
    /\ run' = [n |-> 0]
    /\ dirty' = TRUE
    /\ UNCHANGED <<protocol, data, cloned, trace, status>>

\* a view goes out of scope
DropView ==
    /\ status = "parsed"
    /\ Step
    /\ \E v \in views : views' = views \ {v}
    /\ UNCHANGED <<protocol, raw, data, cloned, last, run, trace, status, dirty>>

\* the Data and the buffer go out of scope at the end of the packet's processing
DropData ==
    /\ status = "parsed"
    /\ CanDrop
    /\ Step
    /\ status' = "dropped"
    /\ UNCHANGED <<protocol, raw, data, views, cloned, last, run, trace, dirty>>

Next ==
    \/ Parse
    \/ Bind
    \/ BindMut
    \/ DataClone
    \/ Swap
    \/ SetPayloadLength
    \/ UpdateChecksum
    \/ RawMutWrite
    \/ DropView
    \/ DropData

Spec == Init /\ [][Next]_vars

----------------------------------------------------------------------------
(* Properties *)

MinHeaderLength(p) == IF p = "TCP" THEN TCP_MIN_HEADER_LENGTH ELSE UDP_HEADER_LENGTH

Supported == {"TCP", "UDP"}

\* the header span of the parsed packet
Header == SubSeq(raw, 1, TransportHeaderData_header_length(data))

\* C1: parse yields None for every tag that is neither TCP nor UDP, whatever the
\* bytes, and invokes no codec parser for it; when it yields a Data for tag TCP the
\* Data is TCP-tagged and for tag UDP it is UDP-tagged, and it yields one for every
\* buffer long enough for the tagged protocol.
C1_ParseDispatch ==
    status # "new" =>
        /\ protocol \notin Supported =>
              data = None /\ status = "unsupported" /\ trace.codecs = {}
        /\ protocol \in Supported => trace.codecs = {protocol}
        /\ data # None => protocol \in Supported /\ data.tag = protocol
        /\ protocol \in Supported /\ Len(raw) >= MinHeaderLength(protocol) =>
              data # None /\ data.tag = protocol

C1_Witness ==
    status = "unsupported" /\ protocol = "OTHER" /\ Len(raw) = 4 /\ trace.codecs = {}

\* C2: a buffer shorter than the tagged protocol's minimum header never gives a Data:
\* the parse aborts the packet before any header field is read.
C2_ShortBufferRejected ==
    status # "new" /\ protocol \in Supported /\ Len(raw) < MinHeaderLength(protocol) =>
        data = None /\ status = "panicked" /\ ~trace.read

C2_Witness ==
    status = "panicked" /\ protocol = "TCP" /\ raw = << 222, 173, 190, 239 >>

ValidHeader ==
    /\ data # None
    /\ ~dirty
    /\ data.tag = "TCP" =>
          LET off == raw[13] \div 16 IN off \in 5..15 /\ Len(raw) >= off * 4

ProtocolHeaderLength == IF data.tag = "TCP" THEN (raw[13] \div 16) * 4 ELSE 8

\* C3: for a valid header, header_length() of the parsed Data is the data offset
\* times 4, within 20..60, for TCP and 8 for UDP, and every view bound from the
\* Data, read-only or mutable, answers the same value.
C3_HeaderLength ==
    ValidHeader =>
        /\ TransportHeaderData_header_length(data) = ProtocolHeaderLength
        /\ data.tag = "TCP" => TransportHeaderData_header_length(data) \in 20..60
        /\ data.tag = "UDP" => TransportHeaderData_header_length(data) = 8
        /\ \A v \in views : TransportHeader_header_length(v, data) = ProtocolHeaderLength

C3_Witness ==
    /\ ValidHeader
    /\ data.tag = "TCP"
    /\ \E v \in views : v.kind = "mut" /\ TransportHeader_header_length(v, data) = 32

\* C4: after one swap_source_and_destination() the source port is the former
\* destination port and the destination port the former source port, in the header
\* bytes and in the Data alike, as every accessor of the view and of the Data
\* reports; the header length is what it was.
C4_SwapExchangesPorts ==
    run.n % 2 = 1 =>
        /\ TransportHeaderData_source_port(data) = TransportHeaderData_destination_port(run.data)
        /\ TransportHeaderData_destination_port(data) = TransportHeaderData_source_port(run.data)
        /\ TransportHeaderData_header_length(data) = TransportHeaderData_header_length(run.data)
        /\ read_u16(raw, 0) = read_u16(run.raw, 2)
        /\ read_u16(raw, 2) = read_u16(run.raw, 0)
        /\ \A v \in views :
              /\ TransportHeader_source_port(v, data) = TransportHeaderData_destination_port(run.data)
              /\ TransportHeader_destination_port(v, data) = TransportHeaderData_source_port(run.data)
              /\ TransportHeader_header_length(v, data) = TransportHeaderData_header_length(run.data)
              /\ TransportHeader_data_clone(v, data) = data

C4_Witness ==
    /\ run.n = 1
    /\ views = {}
    /\ data.tag = "UDP"
    /\ TransportHeaderData_source_port(run.data) = 5000
    /\ TransportHeaderData_source_port(data) = 80
    /\ TransportHeaderData_destination_port(data) = 5000
    /\ read_u16(raw, 0) = 80
    /\ TransportHeaderData_header_length(data) = 8

\* C5 as stated: set_payload_length(n) on a UDP view stores n + 8 in the length
\* field, for every n; on a TCP view it changes nothing and raises no error.
C5_SetPayloadLength_Original ==
    last.op = "set_payload_length" =>
        /\ last.tag = "UDP" => last.ok /\ read_u16(raw, 4) = last.n + 8
        /\ last.tag = "TCP" => last.ok /\ raw = last.raw /\ data = last.data

\* C5 amended: set_payload_length(n) on a UDP view stores n + 8 in the length field
\* whenever n + 8 fits the 16-bit field (n <= 65527); on a TCP view it changes no
\* header byte, leaves the Data alone and raises no error.
C5_SetPayloadLength ==
    last.op = "set_payload_length" =>
        /\ last.tag = "UDP" /\ last.n + 8 < U16Mod =>
              /\ last.ok /\ status # "panicked"
              /\ read_u16(raw, 4) = last.n + 8
              /\ data = last.data
        /\ last.tag = "TCP" =>
              last.ok /\ status # "panicked" /\ raw = last.raw /\ data = last.data

C5_Witness ==
    /\ last.op = "set_payload_length"
    /\ last.tag = "UDP"
    /\ last.n = 65527
    /\ read_u16(last.raw, 4) = 9
    /\ read_u16(raw, 4) = 65535

\* the checksum a receiver computes over pseudo-header, header and payload
Residual(h, ip, payload, tag) ==
    LET proto == IF tag = "TCP" THEN PROTOCOL_TCP ELSE PROTOCOL_UDP
        sum == ip.source[1] + ip.source[2] + ip.destination[1] + ip.destination[2]
               + proto + (Len(h) + Len(payload))
               + SumWords(h \o payload, 1)
    IN  (U16Mod - 1) - Fold(sum)

\* C6: once update_checksum(ipv4_header_data, payload) has run as the last mutation,
\* whatever mutation came before it, the checksum recomputed over the pseudo-header,
\* the final header bytes and the payload leaves no residual, for TCP and for UDP.
C6_ChecksumValid ==
    last.op = "update_checksum" => Residual(Header, last.ip, last.payload, data.tag) = 0

C6_Witness ==
    /\ last.op = "update_checksum"
    /\ last.after = "swap_source_and_destination"
    /\ data.tag = "TCP"
    /\ Len(last.payload) = 1
    /\ Residual(Header, last.ip, last.payload, "TCP") = 0

\* C7: data_clone() on a view through which nothing was mutated yields a Data equal
\* to the Data the view was bound from.
C7_CloneRoundTrip ==
    cloned.op = "data_clone" /\ cloned.clean => cloned.val = cloned.of

C7_Witness ==
    /\ cloned.op = "data_clone"
    /\ cloned.clean
    /\ cloned.kind = "mut"
    /\ cloned.val = cloned.of
    /\ cloned.val.tag = "TCP"

\* C8: two swap_source_and_destination() calls in a row bring back the source and
\* destination ports, in the Data and in the header bytes.
C8_SwapTwiceRestores ==
    run.n > 0 /\ run.n % 2 = 0 =>
        /\ TransportHeaderData_source_port(data) = TransportHeaderData_source_port(run.data)
        /\ TransportHeaderData_destination_port(data) = TransportHeaderData_destination_port(run.data)
        /\ SubSeq(raw, 1, 4) = SubSeq(run.raw, 1, 4)
        /\ data = run.data

C8_Witness ==
    /\ run.n = 2
    /\ data.tag = "UDP"
    /\ TransportHeaderData_source_port(data) = 5000
    /\ TransportHeaderData_destination_port(data) = 80
    /\ SubSeq(raw, 1, 4) = << 19, 136, 0, 80 >>

\* C9: a Data keeps the tag parse gave it through every operation; every view carries
\* the tag of the Data it is bound from, and data_clone() returns that tag.
C9_TagInvariant ==
    /\ data # None => data.tag = trace.tag /\ data.tag = protocol
    /\ \A v \in views : v.tag = data.tag /\ v.orig.tag = data.tag
    /\ cloned.op = "data_clone" => cloned.val.tag = cloned.tag /\ cloned.val.tag = trace.tag

C9_Witness ==
    /\ data.tag = "UDP"
    /\ last.op = "update_checksum"
    /\ cloned.op = "data_clone"
    /\ cloned.val.tag = "UDP"
    /\ \E v \in views : v.kind = "mut" /\ v.tag = "UDP"

\* C10: at most one mutable view is live, no read-only view is live beside it, and
\* a live view's Data and buffer are still in scope.
C10_Exclusive ==
    /\ Cardinality(MutView) <= 1
    /\ MutView # {} => Cardinality(views) = 1
    /\ views # {} => status = "parsed"

C10_Witness ==
    \E v \in views : v.kind = "mut" /\ ~v.clean /\ Cardinality(views) = 1

====
